---- MODULE Spec2Model ----
(***************************************************************************)
(* Software screen compositor and cursor overlay of melonDS DS             *)
(* (src/libretro/render/software.cpp) and the cursor part of the fragment  *)
(* shader (src/libretro/glsl/melondsds.frag).                              *)
(*                                                                         *)
(* The output buffer is kept as its size plus the ordered list of writes   *)
(* issued since it was last zeroed; PixelAt gives the values of a pixel.   *)
(* Pixel values are <<alpha, red, green, blue>>.                           *)
(***************************************************************************)
EXTENDS Integers, Sequences, FiniteSets, TLC

\* The emulated screen, scaled down from 256x192 so that TLC can enumerate it.
NDS_SCREEN_WIDTH == 5
NDS_SCREEN_HEIGHT == 5
\* Hybrid ratios range over 2..MaxRatio, cursor sizes over 1..MaxCursorSize.
MaxRatio == 3
MaxCursorSize == 3
\* floor_div is tried on a in -MaxA..MaxA and b in 1..MaxB.
MaxA == 12
MaxB == 4
\* Texture coordinates are multiples of 1/(2*FragHalf); FragHalf stands for 0.5.
FragHalf == 3

VARIABLES buffer, hybridBuffer, hybridScaler, frontBuffer, heapCorrupted, last, fn

vars == <<buffer, hybridBuffer, hybridScaler, frontBuffer, heapCorrupted, last, fn>>

----------------------------------------------------------------------------
(* Small helpers *)

Min(a, b) == IF a <= b THEN a ELSE b
Max(a, b) == IF a >= b THEN a ELSE b
Abs(a) == IF a < 0 THEN -a ELSE a
\* glm::clamp(v, lo, hi) == min(max(v, lo), hi)
Clamp(v, lo, hi) == Min(Max(v, lo), hi)
\* C++ integer division truncates toward zero; the remainder has the sign of a.
CDiv(a, b) == IF a >= 0 THEN a \div b ELSE -((-a) \div b)
CMod(a, b) == a - b * CDiv(a, b)

NDS_SCREEN_SIZE == <<NDS_SCREEN_WIDTH, NDS_SCREEN_HEIGHT>>
Scaled(size, k) == <<size[1] * k, size[2] * k>>

----------------------------------------------------------------------------
(* Layouts and their precomputed geometry (ScreenLayoutData) *)

HybridLayouts == {"HybridTop", "HybridBottom", "FlippedHybridTop", "FlippedHybridBottom"}
LargeScreenLayouts ==
    {"LargescreenTop", "LargescreenBottom", "FlippedLargescreenTop", "FlippedLargescreenBottom"}
SimpleLayouts == {"TopBottom", "BottomTop", "LeftRight", "RightLeft", "TopOnly", "BottomOnly"}
Layouts == SimpleLayouts \cup HybridLayouts \cup LargeScreenLayouts
FlippedLayouts ==
    {"FlippedHybridTop", "FlippedHybridBottom", "FlippedLargescreenTop", "FlippedLargescreenBottom"}
SideScreenModes == {"Both", "FocusedOnly"}
Filters == {"Nearest", "Bilinear"}

IsHybridLayout(layout) == layout \in HybridLayouts
IsLargeScreenLayout(layout) == layout \in LargeScreenLayouts
LayoutSupportsDirectCopy(layout) == layout \in {"TopBottom", "BottomTop", "TopOnly", "BottomOnly"}

\* A ScreenLayoutData value: the layout, the hybrid ratio and the side-screen mode.
ScreenLayoutDatas == [layout : Layouts, ratio : 2..MaxRatio, mode : SideScreenModes]

BufferSize(sl) ==
    IF sl.layout \in {"TopBottom", "BottomTop"} THEN <<NDS_SCREEN_WIDTH, 2 * NDS_SCREEN_HEIGHT>>
    ELSE IF sl.layout \in {"LeftRight", "RightLeft"} THEN <<2 * NDS_SCREEN_WIDTH, NDS_SCREEN_HEIGHT>>
    ELSE IF sl.layout \in {"TopOnly", "BottomOnly"} THEN NDS_SCREEN_SIZE
    ELSE <<NDS_SCREEN_WIDTH * sl.ratio + NDS_SCREEN_WIDTH, NDS_SCREEN_HEIGHT * sl.ratio>>

\* Where the magnified screen and the column of native-size screens start.
BigLeft(sl) == IF sl.layout \in FlippedLayouts THEN NDS_SCREEN_WIDTH ELSE 0
SmallLeft(sl) == IF sl.layout \in FlippedLayouts THEN 0 ELSE NDS_SCREEN_WIDTH * sl.ratio
SmallLow(sl) == NDS_SCREEN_HEIGHT * (sl.ratio - 1)

GetHybridScreenTranslation(sl) == <<BigLeft(sl), 0>>

GetTopScreenTranslation(sl) ==
    IF sl.layout = "BottomTop" THEN <<0, NDS_SCREEN_HEIGHT>>
    ELSE IF sl.layout = "RightLeft" THEN <<NDS_SCREEN_WIDTH, 0>>
    ELSE IF sl.layout \in SimpleLayouts THEN <<0, 0>>
    ELSE IF sl.layout \in {"LargescreenTop", "FlippedLargescreenTop"} THEN <<BigLeft(sl), 0>>
    ELSE <<SmallLeft(sl), 0>>

GetBottomScreenTranslation(sl) ==
    IF sl.layout = "TopBottom" THEN <<0, NDS_SCREEN_HEIGHT>>
    ELSE IF sl.layout = "LeftRight" THEN <<NDS_SCREEN_WIDTH, 0>>
    ELSE IF sl.layout \in SimpleLayouts THEN <<0, 0>>
    ELSE IF sl.layout \in {"LargescreenBottom", "FlippedLargescreenBottom"} THEN <<BigLeft(sl), 0>>
    ELSE <<SmallLeft(sl), SmallLow(sl)>>

\* The size at which the lower screen is shown at GetBottomScreenTranslation.
BottomScreenMagnification(sl) ==
    IF sl.layout \in {"LargescreenBottom", "FlippedLargescreenBottom"} THEN sl.ratio ELSE 1

\* GetBottomScreenMatrix() * vec3(p, 1): scale, then translate.
TransformBottom(sl, p) ==
    <<p[1] * BottomScreenMagnification(sl) + GetBottomScreenTranslation(sl)[1],
      p[2] * BottomScreenMagnification(sl) + GetBottomScreenTranslation(sl)[2]>>

----------------------------------------------------------------------------
(* Pixel values *)

\* A pixel is <<alpha, red, green, blue>>.
ClearValue == <<0, 0, 0, 0>>
\* 0xFFFFFFFF and 0xFF000000
CursorWhite == <<255, 255, 255, 255>>
CursorBlack == <<255, 0, 0, 0>>

\* Pixel (x, y) of image c of screen s (0 = top, 1 = bottom).  Images 0 and 1
\* are the two framebuffers of the emulator, image 2 is the error screen.  The
\* value names its origin, so that any two source pixels differ, and none is
\* the cleared value or a cursor colour.
SrcPixel(s, c, x, y) == <<255, 1 + s + 2 * c, x, y>>

\* What the scaler leaves at (i, j) of its output when it magnifies by `ratio`:
\* the source pixel under it, and for the bilinear filter a blend, kept apart
\* from every source pixel.
ScalePixel(s, c, ratio, type, i, j) ==
    IF type = "Bilinear" THEN <<255, 7 + s + 2 * c, i \div ratio, j \div ratio>>
    ELSE SrcPixel(s, c, i \div ratio, j \div ratio)

Area(size) == size[1] * size[2]

\* Every 32-bit pixel word.  A word read outside what the scaler wrote inside
\* hybridBuffer's allocation is whatever the heap holds there: any of these.
HeapWords == (0..255) \X (0..255) \X (0..255) \X (0..255)

----------------------------------------------------------------------------
(* Cursor overlay, CPU form (DrawCursor) *)

\* The floor-division helper of DrawCursor, on C++ int division and remainder.
floor_div_trunc(a, b) == CDiv(a, b)
floor_div(a, b) ==
    LET q == CDiv(a, b)
        r == CMod(a, b)
    IN IF r # 0 /\ a < 0 THEN q - 1 ELSE q

\* Classification of a base cell: white fill, black ring, or left untouched.
CursorClassRingWithCorners(bx, by) ==
    IF Abs(bx) <= 1 /\ Abs(by) <= 1 THEN "white"
    ELSE IF (Abs(by) = 2 /\ Abs(bx) <= 2) \/ (Abs(bx) = 2 /\ Abs(by) <= 2) THEN "black"
    ELSE "none"
CursorClass(bx, by) ==
    LET abx == Abs(bx)
        aby == Abs(by)
        inWhite3x3 == abx <= 1 /\ aby <= 1
        isCorner == abx = 2 /\ aby = 2
        inRing == ~isCorner /\ ((aby = 2 /\ abx <= 1) \/ (abx = 2 /\ aby <= 1))
    IN IF inWhite3x3 THEN "white" ELSE IF inRing THEN "black" ELSE "none"

\* The magnification DrawCursor draws the cursor at.
CursorScaleWithHybrid(sl) ==
    IF sl.layout \in {"LargescreenBottom", "FlippedLargescreenBottom",
                      "HybridBottom", "FlippedHybridBottom"}
    THEN sl.ratio ELSE 1
CursorScale(sl) ==
    IF sl.layout = "LargescreenBottom" \/ sl.layout = "FlippedLargescreenBottom"
    THEN sl.ratio ELSE 1

\* The last column (row) the loops of DrawCursor visit: extent is W (H).
CursorLastUnclipped(extent, centre, scale) == Min(extent, centre + 2 * scale + (scale - 1))
CursorLast(extent, centre, scale) == Min(extent - 1, centre + 2 * scale + (scale - 1))
CursorFirst(centre, scale) == Max(0, centre - 2 * scale)

NoCursor ==
    [called |-> FALSE, drawn |-> FALSE, touch |-> <<0, 0>>, cursorSize |-> 0,
     target |-> <<0, 0>>, scale |-> 0, cx |-> 0, cy |-> 0,
     sx |-> 0, sy |-> 0, ex |-> 0, ey |-> 0]

\* Everything DrawCursor computes before its loops, for a buffer of size `size`.
CursorGeometry(size, sl, touch, cursorSize) ==
    IF sl.layout = "TopOnly" THEN [NoCursor EXCEPT !.called = TRUE]
    ELSE
    LET clampedTouch == <<Clamp(touch[1], 0, NDS_SCREEN_WIDTH - 1),
                          Clamp(touch[2], 0, NDS_SCREEN_HEIGHT - 1)>>
        transformedTouch == TransformBottom(sl, clampedTouch)
        startX == Clamp(transformedTouch[1] - cursorSize, 0, size[1])
        startY == Clamp(transformedTouch[2] - cursorSize, 0, size[2])
        endX == Clamp(transformedTouch[1] + cursorSize, 0, size[1])
        endY == Clamp(transformedTouch[2] + cursorSize, 0, size[2])
        scale == CursorScale(sl)
        centerX == (startX + endX) \div 2
        centerY == (startY + endY) \div 2
    IN [called |-> TRUE, drawn |-> TRUE, touch |-> touch, cursorSize |-> cursorSize,
        target |-> transformedTouch, scale |-> scale, cx |-> centerX, cy |-> centerY,
        sx |-> CursorFirst(centerX, scale), sy |-> CursorFirst(centerY, scale),
        ex |-> CursorLast(size[1], centerX, scale),
        ey |-> CursorLast(size[2], centerY, scale)]

\* The colour the loops of DrawCursor write at (x, y), "none" when they skip it.
CursorClassAt(cur, x, y) ==
    CursorClass(floor_div(x - cur.cx, cur.scale), floor_div(y - cur.cy, cur.scale))

\* The set_px calls of DrawCursor: <<x, y, colour>>.
CursorWrites(cur) ==
    IF ~cur.drawn THEN {}
    ELSE {<<x, y, IF CursorClassAt(cur, x, y) = "white" THEN CursorWhite ELSE CursorBlack>> :
            <<x, y>> \in {p \in (cur.sx..cur.ex) \X (cur.sy..cur.ey) :
                            CursorClassAt(cur, p[1], p[2]) # "none"}}

----------------------------------------------------------------------------
(* The output buffer (PixelBuffer) *)

NoCopy == [src |-> "none", screen |-> 0, c |-> 0, ratio |-> 1, type |-> "Nearest",
           valid |-> TRUE, out |-> <<0, 0>>, alloc |-> <<0, 0>>, clobbered |-> FALSE,
           at |-> <<0, 0>>, size |-> <<0, 0>>]

\* A write issued to the buffer: a copy of rows, a contiguous copy, or the cursor.
RowsOp(copy) == [kind |-> "rows", copy |-> copy, cur |-> NoCursor]
DirectOp(copy) == [kind |-> "direct", copy |-> copy, cur |-> NoCursor]
CursorOp(cur) == [kind |-> "cursor", copy |-> NoCopy, cur |-> cur]
\* The words the scaler writes past hybridBuffer's allocation when its output
\* is larger: they land in whatever the heap holds next to it, which may be
\* pixels of the output buffer and may be the images the scaler and the copies
\* read from.
OverrunOp(copy) == [kind |-> "overrun", copy |-> copy, cur |-> NoCursor]

Pixels(size) == (0..(size[1] - 1)) \X (0..(size[2] - 1))

\* Word k of the scaler's output, which is packed at its own width copy.out.
ScalerWord(copy, k) ==
    ScalePixel(copy.screen, copy.c, copy.out[1] \div NDS_SCREEN_WIDTH, copy.type,
               k % copy.out[1], k \div copy.out[1])

\* The values pixel (i, j) of the source of a copy may hold.  CopyRows reads
\* hybridBuffer packed at the width of the copy: pixel (i, j) is word
\* j * width + i of the memory the scaler filled.  A word the scaler wrote
\* inside the allocation holds what it wrote; any other word is read from
\* memory the program has not determined and can be any word.  So can every
\* word of a source that a scaler overrun may have overwritten.
CopySource(copy, i, j) ==
    IF copy.clobbered THEN HeapWords
    ELSE IF copy.src = "screen" THEN {SrcPixel(copy.screen, copy.c, i, j)}
    ELSE LET k == j * copy.size[1] + i
         IN IF k < Area(copy.out) /\ k < Area(copy.alloc) THEN {ScalerWord(copy, k)}
            ELSE HeapWords

\* Offset of pixel p from the first pixel of a contiguous copy, in a buffer of width w.
DirectOffset(op, w, p) == (p[2] * w + p[1]) - (op.copy.at[2] * w + op.copy.at[1])

OpCovers(op, size, p) ==
    IF op.kind = "rows"
    THEN /\ p[1] >= op.copy.at[1] /\ p[1] < op.copy.at[1] + op.copy.size[1]
         /\ p[2] >= op.copy.at[2] /\ p[2] < op.copy.at[2] + op.copy.size[2]
    ELSE IF op.kind = "direct"
    THEN /\ DirectOffset(op, size[1], p) >= 0
         /\ DirectOffset(op, size[1], p) < op.copy.size[1] * op.copy.size[2]
    ELSE IF op.kind = "overrun" THEN TRUE
    ELSE /\ p[1] >= op.cur.sx /\ p[1] <= op.cur.ex
         /\ p[2] >= op.cur.sy /\ p[2] <= op.cur.ey
         /\ CursorClassAt(op.cur, p[1], p[2]) # "none"

OpValue(op, size, p) ==
    IF op.kind = "rows"
    THEN CopySource(op.copy, p[1] - op.copy.at[1], p[2] - op.copy.at[2])
    ELSE IF op.kind = "direct"
    THEN CopySource(op.copy, DirectOffset(op, size[1], p) % op.copy.size[1],
                             DirectOffset(op, size[1], p) \div op.copy.size[1])
    ELSE IF op.kind = "overrun" THEN HeapWords
    ELSE IF CursorClassAt(op.cur, p[1], p[2]) = "white" THEN {CursorWhite} ELSE {CursorBlack}

\* The values pixel p may hold: those of the last write covering it, else the
\* cleared value.  The set is a single value wherever the program determines
\* the pixel.  A pixel under a scaler overrun holds what it held (the cleared
\* value, as the overrun follows Clear) or one of the overrunning words, which
\* the scaler computes from a source it may be overwriting: any word.
PixelAt(b, p) ==
    LET hits == {i \in 1..Len(b.ops) : OpCovers(b.ops[i], b.size, p)}
    IN IF hits = {} THEN {ClearValue}
       ELSE OpValue(b.ops[CHOOSE i \in hits : \A k \in hits : k <= i], b.size, p)

\* SetSize reallocates (zeroed) only when the size differs.
SetSize(b, size) == IF b.size = size THEN b ELSE [size |-> size, ops |-> <<>>]
Clear(b) == [b EXCEPT !.ops = <<>>]
Issue(b, ops) == [b EXCEPT !.ops = @ \o ops]

----------------------------------------------------------------------------
(* Compositor (CombineScreens, CopyScreen) *)

\* One emulated screen at native size, copied to translation `at`.
ScreenCopy(s, c, at, damaged) ==
    [src |-> "screen", screen |-> s, c |-> c, ratio |-> 1, type |-> "Nearest",
     valid |-> TRUE, out |-> NDS_SCREEN_SIZE, alloc |-> NDS_SCREEN_SIZE,
     clobbered |-> damaged,
     at |-> at, size |-> NDS_SCREEN_SIZE]

\* hybridScaler.Scale into hybridBuffer, then CopyRows of NDS_SCREEN_SIZE * ratio
\* from it.  The scaler writes its own output size hs.out, packed, into the
\* allocation hb, and the copy reads the layout's size, packed, from it; valid
\* says that the three sizes are the same.  damaged says that a scaler overrun,
\* in this call or an earlier one, may have overwritten the source images.
HybridCopy(s, c, sl, hs, hb, at, damaged) ==
    [src |-> "hybrid", screen |-> s, c |-> c, ratio |-> sl.ratio, type |-> hs.type,
     valid |-> (hb = Scaled(NDS_SCREEN_SIZE, sl.ratio) /\ hs.out = hb),
     out |-> hs.out, alloc |-> hb, clobbered |-> damaged,
     at |-> at, size |-> Scaled(NDS_SCREEN_SIZE, sl.ratio)]

\* CopyScreen: one contiguous copy where the layout allows it, else row by row.
CopyScreen(s, c, at, layout, damaged) ==
    IF LayoutSupportsDirectCopy(layout) THEN DirectOp(ScreenCopy(s, c, at, damaged))
    ELSE RowsOp(ScreenCopy(s, c, at, damaged))

\* Hybrid layouts: is the top (bottom) screen copied at native size?
CopiesTopSmallSwapped(sl) ==
    sl.mode = "Both" \/ sl.layout = "HybridTop" \/ sl.layout = "FlippedHybridTop"
CopiesTopSmall(sl) ==
    sl.mode = "Both" \/ sl.layout = "HybridBottom" \/ sl.layout = "FlippedHybridBottom"
CopiesBottomSmall(sl) ==
    sl.mode = "Both" \/ sl.layout = "HybridTop" \/ sl.layout = "FlippedHybridTop"

\* The copies CombineScreens issues after clearing, in order.  c is the image
\* both screens are taken from.
CombineCopies(c, sl, hs, hb, damaged) ==
    IF IsHybridLayout(sl.layout)
    THEN LET primary == IF sl.layout = "HybridTop" \/ sl.layout = "FlippedHybridTop"
                        THEN 0 ELSE 1
         IN <<RowsOp(HybridCopy(primary, c, sl, hs, hb, GetHybridScreenTranslation(sl), damaged))>>
            \o (IF CopiesTopSmall(sl)
                THEN <<RowsOp(ScreenCopy(0, c, GetTopScreenTranslation(sl), damaged))>> ELSE <<>>)
            \o (IF CopiesBottomSmall(sl)
                THEN <<RowsOp(ScreenCopy(1, c, GetBottomScreenTranslation(sl), damaged))>> ELSE <<>>)
    ELSE IF IsLargeScreenLayout(sl.layout)
    THEN IF sl.layout = "LargescreenTop" \/ sl.layout = "FlippedLargescreenTop"
         THEN <<RowsOp(HybridCopy(0, c, sl, hs, hb, GetTopScreenTranslation(sl), damaged)),
                CopyScreen(1, c, GetBottomScreenTranslation(sl), sl.layout, damaged)>>
         ELSE <<RowsOp(HybridCopy(1, c, sl, hs, hb, GetBottomScreenTranslation(sl), damaged)),
                CopyScreen(0, c, GetTopScreenTranslation(sl), sl.layout, damaged)>>
    ELSE (IF sl.layout # "BottomOnly"
          THEN <<CopyScreen(0, c, GetTopScreenTranslation(sl), sl.layout, damaged)>> ELSE <<>>)
         \o (IF sl.layout # "TopOnly"
             THEN <<CopyScreen(1, c, GetBottomScreenTranslation(sl), sl.layout, damaged)>> ELSE <<>>)

\* Does hybridScaler.Scale write past the end of hybridBuffer?
ScalerOverruns(sl, hs, hb) ==
    /\ IsHybridLayout(sl.layout) \/ IsLargeScreenLayout(sl.layout)
    /\ Area(hs.out) > Area(hb)

\* CombineScreens: Clear, then the scale (whose writes reach the output buffer
\* only when they overrun hybridBuffer) and the copies.  damaged says that an
\* earlier call's scaler overran.
CombineScreens(b, c, sl, hs, hb, damaged) ==
    LET copies == CombineCopies(c, sl, hs, hb, damaged \/ ScalerOverruns(sl, hs, hb))
    IN Issue(Clear(b),
             (IF ScalerOverruns(sl, hs, hb) THEN <<OverrunOp(copies[1].copy)>> ELSE <<>>)
             \o copies)

\* Do the scaler's writes and the copy's reads stay inside hybridBuffer?
HybridInBounds(sl, hs, hb) ==
    ~(IsHybridLayout(sl.layout) \/ IsLargeScreenLayout(sl.layout))
    \/ (/\ Area(hs.out) <= Area(hb)
        /\ Area(Scaled(NDS_SCREEN_SIZE, sl.ratio)) <= Area(hb))

----------------------------------------------------------------------------
(* The renderer *)

ScalerType(filter) == IF filter = "Nearest" THEN "Nearest" ELSE "Bilinear"

NoFrame ==
    [kind |-> "none", sl |-> [layout |-> "TopBottom", ratio |-> 2, mode |-> "Both"],
     bufferAtCombine |-> <<1, 1>>, hybridAtCombine |-> <<1, 1>>,
     scalerOutAtCombine |-> <<1, 1>>, copies |-> <<>>, cursor |-> NoCursor]

\* SoftwareRenderState(config): both buffers 1x1, the scaler set up from the
\* configuration.  No frame has been rendered.
Init ==
    /\ buffer = [size |-> <<1, 1>>, ops |-> <<>>]
    /\ hybridBuffer = <<1, 1>>
    /\ \E filter \in Filters, ratio \in 2..MaxRatio :
          hybridScaler = [type |-> ScalerType(filter), out |-> Scaled(NDS_SCREEN_SIZE, ratio)]
    /\ frontBuffer = 0
    /\ heapCorrupted = FALSE
    /\ last = NoFrame
    /\ fn = [op |-> "none"]

\* SetSize reallocating on a heap an earlier scaler overrun has damaged: the
\* allocator may end the process.  last keeps the last call that reached
\* CombineScreens.
AbortInSetSize ==
    /\ last' = [last EXCEPT !.kind = "crashed"]
    /\ UNCHANGED <<buffer, hybridBuffer, hybridScaler, frontBuffer, heapCorrupted, fn>>

\* Render(nds, inputState, config, screenLayout), on the frame the emulator
\* has just finished (it alternates between its two framebuffers).  After a
\* scaler overrun in an earlier error screen, a reallocation in either SetSize
\* may end the process instead.
Render(sl, filter, lidClosed, cursorVisible, touch, cursorSize) ==
    LET sized == SetSize(buffer, BufferSize(sl))
        magnified == IsHybridLayout(sl.layout) \/ IsLargeScreenLayout(sl.layout)
        hb == IF magnified THEN Scaled(NDS_SCREEN_SIZE, sl.ratio) ELSE hybridBuffer
        hs == IF magnified
              THEN [type |-> ScalerType(filter), out |-> Scaled(NDS_SCREEN_SIZE, sl.ratio)]
              ELSE hybridScaler
        c == 1 - frontBuffer
        combined == CombineScreens(sized, c, sl, hs, hb, heapCorrupted)
        cur == IF ~lidClosed /\ cursorVisible
               THEN CursorGeometry(combined.size, sl, touch, cursorSize)
               ELSE NoCursor
    IN /\ last.kind # "crashed"
       /\ \/ /\ frontBuffer' = c
             /\ hybridBuffer' = hb
             /\ hybridScaler' = hs
             /\ buffer' = IF cur.drawn THEN Issue(combined, <<CursorOp(cur)>>) ELSE combined
             /\ last' = [kind |-> "frame", sl |-> sl,
                         bufferAtCombine |-> sized.size, hybridAtCombine |-> hb,
                         scalerOutAtCombine |-> hs.out,
                         copies |-> CombineCopies(c, sl, hs, hb, heapCorrupted),
                         cursor |-> cur]
             /\ UNCHANGED <<heapCorrupted, fn>>
          \/ /\ heapCorrupted
             /\ buffer.size # BufferSize(sl) \/ hybridBuffer # hb
             /\ AbortInSetSize

\* Render(error, screenLayout): the error screen (image 2) through the same
\* compositor.  This overload resizes neither hybridBuffer nor the scaler.  The
\* call composes the frame from whatever hybridBuffer's memory holds.  When the
\* scaler's output is larger than the allocation, its writes overrun it, after
\* the clear: they may land in output pixels and in the images the frame is
\* composed from, in this call and in later ones, and they damage the heap.  When
\* the scaler's writes or the copy's reads leave the allocation, the process
\* may instead die in CombineScreens, after the clear and before the first
\* copy.  After an earlier overrun, a reallocation in SetSize may end the
\* process.
RenderError(sl) ==
    LET sized == SetSize(buffer, BufferSize(sl))
        damagedNow == heapCorrupted \/ ScalerOverruns(sl, hybridScaler, hybridBuffer)
    IN /\ last.kind # "crashed"
       /\ \/ /\ buffer' = CombineScreens(sized, 2, sl, hybridScaler, hybridBuffer, heapCorrupted)
             /\ last' = [kind |-> "error", sl |-> sl,
                         bufferAtCombine |-> sized.size,
                         hybridAtCombine |-> hybridBuffer,
                         scalerOutAtCombine |-> hybridScaler.out,
                         copies |-> CombineCopies(2, sl, hybridScaler, hybridBuffer,
                                                  damagedNow),
                         cursor |-> NoCursor]
             /\ heapCorrupted' = damagedNow
             /\ UNCHANGED <<hybridBuffer, hybridScaler, frontBuffer, fn>>
          \/ /\ ~HybridInBounds(sl, hybridScaler, hybridBuffer)
             /\ buffer' = Clear(sized)
             /\ last' = [kind |-> "crashed", sl |-> sl,
                         bufferAtCombine |-> sized.size,
                         hybridAtCombine |-> hybridBuffer,
                         scalerOutAtCombine |-> hybridScaler.out,
                         copies |-> <<>>, cursor |-> NoCursor]
             /\ UNCHANGED <<hybridBuffer, hybridScaler, frontBuffer, heapCorrupted, fn>>
          \/ /\ heapCorrupted
             /\ buffer.size # BufferSize(sl)
             /\ AbortInSetSize

\* Touch positions: every point of the screen and one step outside each edge.
TouchPositions == ((-1)..NDS_SCREEN_WIDTH) \X ((-1)..NDS_SCREEN_HEIGHT)
\* The layout data tried in runs of several frames: the code reads the ratio
\* only in hybrid and large-screen layouts and the side-screen mode only in
\* hybrid ones, so the other layouts are tried with one value of each.
FrameLayoutDatas ==
    {sl \in ScreenLayoutDatas :
        /\ IsHybridLayout(sl.layout) \/ sl.mode = "Both"
        /\ IsHybridLayout(sl.layout) \/ IsLargeScreenLayout(sl.layout) \/ sl.ratio = 2}
\* The filter is read only in hybrid and large-screen layouts.
FrameFilters(sl) ==
    IF IsHybridLayout(sl.layout) \/ IsLargeScreenLayout(sl.layout) THEN Filters ELSE {"Nearest"}
\* <<lid closed, cursor visible, touch position>> tried in runs of several frames.
FrameInputs ==
    {<<TRUE, TRUE, <<0, 0>>>>, <<FALSE, FALSE, <<0, 0>>>>, <<FALSE, TRUE, <<0, 0>>>>,
     <<FALSE, TRUE, <<NDS_SCREEN_WIDTH \div 2, NDS_SCREEN_HEIGHT \div 2>>>>}

RenderFrame ==
    \E sl \in FrameLayoutDatas, in \in FrameInputs :
        \E filter \in FrameFilters(sl) :
            Render(sl, filter, in[1], in[2], in[3], MaxCursorSize)

RenderErrorScreen == \E sl \in FrameLayoutDatas : RenderError(sl)

Next == RenderFrame \/ RenderErrorScreen

\* Any sequence of frames and error screens.
Spec == Init /\ [][Next]_vars

\* The first frame after construction, over every touch position and cursor size.
FirstFrame ==
    /\ last.kind = "none"
    /\ \E sl \in ScreenLayoutDatas, filter \in Filters, touch \in TouchPositions,
          cursorSize \in 1..MaxCursorSize :
          Render(sl, filter, FALSE, TRUE, touch, cursorSize)

SpecFirstFrame == Init /\ [][FirstFrame]_vars

----------------------------------------------------------------------------
(* Cursor overlay, fragment form (melondsds.frag) *)

\* Texture coordinates and the cursor rectangle are integers in units of
\* 1/(2*FragHalf), so 0.5 is FragHalf and 1.0 is FragOne.  Comparisons between
\* them are exact.  Colour channels are in units of 1/255.
FragOne == 2 * FragHalf

\* The half-open box test.  cursorPos is <<left, top, right, bottom>>.
FragInsideClosed(x, y, cursorPos) ==
    /\ x >= cursorPos[1] /\ x <= cursorPos[3]
    /\ y >= cursorPos[2] /\ y <= cursorPos[4]
FragInside(x, y, cursorPos) ==
    /\ x >= cursorPos[1] /\ x < cursorPos[3]
    /\ y >= cursorPos[2] /\ y < cursorPos[4]

\* The fragments whose u * 5 is mathematically a whole number k in 1..4: the
\* float quotient (t - lo) / w carries a rounding error that can exceed eps, so
\* u * 5 - eps lands on either side of k.
FragTie(t, lo, hi) ==
    /\ hi - lo > 0
    /\ 5 * (t - lo) > 0 /\ 5 * (t - lo) < 5 * (hi - lo)
    /\ (5 * (t - lo)) % (hi - lo) = 0
\* The ways the rounding can fall: up is TRUE when u * 5 - eps is not below k.
FragRoundings(t, lo, hi) == IF FragTie(t, lo, hi) THEN BOOLEAN ELSE {FALSE}

\* clamp(int(floor(u * 5.0 - eps)), 0, 4) with u = clamp((t - lo) / w, 0, 1) and
\* w = max(hi - lo, 1e-6).  For hi > lo, u * 5 is n / w with n = 5 * (t - lo)
\* clamped to 0..5w.  When w does not divide n, n / w is further from a whole
\* number than eps and the rounding error, and the bucket is floor(n / w).  When
\* it does, the bucket is n / w - 1, or n / w when the rounding falls up; at
\* n = 0 and n = 5w the quotient is exactly 0 and 1.  For hi <= lo, w is 1e-6
\* and u is 1 for t > lo and 0 otherwise.
FragBucket(t, lo, hi, up) ==
    LET w == hi - lo
        n == Clamp(5 * (t - lo), 0, 5 * w)
        f == IF w <= 0 THEN (IF t > lo THEN 4 ELSE -1)
             ELSE IF n % w = 0
                  THEN (IF up /\ FragTie(t, lo, hi) THEN n \div w ELSE (n \div w) - 1)
                  ELSE n \div w
    IN Clamp(f, 0, 4)

\* Classification of bucket (bx, by) in 0..4 x 0..4.
FragClassShortRing(bx, by) ==
    LET adx == Abs(bx - 2)
        ady == Abs(by - 2)
        onOuterRow == by = 0 \/ by = 3
        onOuterCol == bx = 0 \/ bx = 3
    IN IF adx <= 1 /\ ady <= 1 THEN "white"
       ELSE IF ~(onOuterRow /\ onOuterCol) /\ ((onOuterRow /\ adx <= 1) \/ (onOuterCol /\ ady <= 1))
       THEN "black" ELSE "none"
FragClass(bx, by) ==
    LET dx == bx - 2
        dy == by - 2
        adx == Abs(dx)
        ady == Abs(dy)
        inWhite3x3 == adx <= 1 /\ ady <= 1
        onOuterRow == by = 0 \/ by = 4
        onOuterCol == bx = 0 \/ bx = 4
        isCorner == onOuterRow /\ onOuterCol
        inRing == ~isCorner /\ ((onOuterRow /\ adx <= 1) \/ (onOuterCol /\ ady <= 1))
    IN IF inWhite3x3 THEN "white" ELSE IF inRing THEN "black" ELSE "none"

\* oColor = vec4(pixel.bgr, 1.0), on <<r, g, b, a>>.
FragOutput(pixel) == <<pixel[3], pixel[2], pixel[1], 255>>

\* main(): what the shader computes for the fragment at (x, y) whose texture
\* sample is `sample`; upX and upY say how the float rounding falls in each axis.
FragMain(x, y, sample, cursorPos, cursorVisible, upX, upY) ==
    LET inHalf == cursorVisible /\ y >= FragHalf /\ y <= FragOne
        inside == inHalf /\ FragInside(x, y, cursorPos)
        bx == IF inside THEN FragBucket(x, cursorPos[1], cursorPos[3], upX) ELSE 0
        by == IF inside THEN FragBucket(y, cursorPos[2], cursorPos[4], upY) ELSE 0
        class == IF inside THEN FragClass(bx, by) ELSE "none"
        pixel == IF class = "white" THEN <<255, 255, 255, sample[4]>>
                 ELSE IF class = "black" THEN <<0, 0, 0, sample[4]>>
                 ELSE sample
    IN [inHalf |-> inHalf, inside |-> inside, bx |-> bx, by |-> by, class |-> class,
        oColor |-> FragOutput(pixel)]

----------------------------------------------------------------------------
(* The helpers and the shader on their own *)

\* floor_div(a, b) for one pair of arguments.
FloorDivStep ==
    /\ fn.op = "none"
    /\ \E a \in (-MaxA)..MaxA, b \in 1..MaxB :
          fn' = [op |-> "floor_div", a |-> a, b |-> b, q |-> floor_div(a, b)]
    /\ UNCHANGED <<buffer, hybridBuffer, hybridScaler, frontBuffer, heapCorrupted, last>>

\* One base cell classified by DrawCursor and, as bucket (bx+2, by+2), by the shader.
ClassifyStep ==
    /\ fn.op = "none"
    /\ \E bx \in (-2)..2, by \in (-2)..2 :
          fn' = [op |-> "classify", bx |-> bx, by |-> by,
                 cpu |-> CursorClass(bx, by), frag |-> FragClass(bx + 2, by + 2)]
    /\ UNCHANGED <<buffer, hybridBuffer, hybridScaler, frontBuffer, heapCorrupted, last>>

\* Texture samples tried: <<r, g, b, a>>.
FragSamples == {<<10, 20, 30, 40>>}

\* The shader on one fragment.
FragmentStep ==
    /\ fn.op = "none"
    /\ \E x \in 0..FragOne, y \in (FragHalf - 1)..FragOne,
          left \in 0..FragOne, right \in 0..FragOne,
          top \in (FragHalf - 1)..FragOne, bottom \in (FragHalf - 1)..FragOne,
          cursorVisible \in BOOLEAN, sample \in FragSamples :
          \E upX \in FragRoundings(x, left, right), upY \in FragRoundings(y, top, bottom) :
              fn' = [op |-> "frag", x |-> x, y |-> y, sample |-> sample,
                     cursorPos |-> <<left, top, right, bottom>>,
                     cursorVisible |-> cursorVisible,
                     res |-> FragMain(x, y, sample, <<left, top, right, bottom>>,
                                      cursorVisible, upX, upY)]
    /\ UNCHANGED <<buffer, hybridBuffer, hybridScaler, frontBuffer, heapCorrupted, last>>

InitFn ==
    /\ Init
    /\ hybridScaler = [type |-> "Nearest", out |-> Scaled(NDS_SCREEN_SIZE, 2)]

NextFn == FloorDivStep \/ ClassifyStep \/ FragmentStep

SpecFn == InitFn /\ [][NextFn]_vars

----------------------------------------------------------------------------
(* Properties *)

\* The buffer as CombineScreens left it in the last frame, before the cursor.
Combined == [size |-> buffer.size, ops |-> last.copies]

\* The scaled 5x5 box around the centre DrawCursor uses.
CursorBox(cur) ==
    ((cur.cx - 2 * cur.scale)..(cur.cx + 3 * cur.scale - 1))
        \X ((cur.cy - 2 * cur.scale)..(cur.cy + 3 * cur.scale - 1))
BoxInBuffer(cur) == cur.drawn /\ CursorBox(cur) \subseteq Pixels(buffer.size)

\* C1: when the scaled 5x5 box around the cursor centre lies inside the output
\* buffer, DrawCursor writes exactly 9*s^2 white and 12*s^2 black pixels (21*s^2
\* in all), the buffer holds them, and the 4*s^2 corner pixels of the box keep
\* the value the compositor gave them.
C1_ShapeCounts ==
    BoxInBuffer(last.cursor) =>
        LET cur == last.cursor
            s == cur.scale
            writes == CursorWrites(cur)
            corners == {p \in CursorBox(cur) : \A w \in writes : <<w[1], w[2]>> # p}
        IN /\ Cardinality({w \in writes : w[3] = CursorWhite}) = 9 * s * s
           /\ Cardinality({w \in writes : w[3] = CursorBlack}) = 12 * s * s
           /\ Cardinality(writes) = 21 * s * s
           /\ Cardinality(corners) = 4 * s * s
           /\ \A w \in writes : PixelAt(buffer, <<w[1], w[2]>>) = {w[3]}
           /\ \A p \in corners :
                 /\ PixelAt(buffer, p) = PixelAt(Combined, p)
                 /\ Abs(floor_div(p[1] - cur.cx, s)) = 2
                 /\ Abs(floor_div(p[2] - cur.cy, s)) = 2
C1_Witness == BoxInBuffer(last.cursor) /\ last.cursor.scale >= 2

\* C2: for each of the 25 base cells (bx, by), the classification of DrawCursor
\* equals the shader's classification of bucket (bx+2, by+2).
C2_SameClassification == fn.op = "classify" => fn.cpu = fn.frag
C2_Witness == fn.op = "classify" /\ fn.bx = 2 /\ fn.by = -2 /\ fn.frag = "none"

\* Is the lower screen the magnified one in the last frame?
LowerScreenMagnified ==
    \E i \in 1..Len(last.copies) :
        last.copies[i].copy.src = "hybrid" /\ last.copies[i].copy.screen = 1

\* C3 as stated: the cursor scale is the hybrid ratio in every layout in which
\* the lower screen is the magnified one (HybridBottom, LargescreenBottom and
\* their flipped siblings) and 1 in every other layout.
C3_ScaleFollowsMagnifiedLowerScreen ==
    last.cursor.drawn =>
        last.cursor.scale = (IF LowerScreenMagnified THEN last.sl.ratio ELSE 1)

\* C3 amended: the cursor scale is the hybrid ratio exactly in LargescreenBottom
\* and FlippedLargescreenBottom and 1 in every other layout, HybridBottom and
\* FlippedHybridBottom included; it is the magnification of every copy of the
\* lower screen that the compositor places at the bottom-screen translation,
\* which is where the cursor is placed.
C3_ScaleOfBottomTranslation ==
    last.cursor.drawn =>
        /\ last.cursor.scale =
              (IF last.sl.layout \in {"LargescreenBottom", "FlippedLargescreenBottom"}
               THEN last.sl.ratio ELSE 1)
        /\ \A i \in 1..Len(last.copies) :
              (/\ last.copies[i].copy.screen = 1
               /\ last.copies[i].copy.at = GetBottomScreenTranslation(last.sl))
              => last.copies[i].copy.size = Scaled(NDS_SCREEN_SIZE, last.cursor.scale)
C3_Witness ==
    /\ last.cursor.drawn /\ last.sl.layout = "HybridBottom" /\ last.sl.mode = "Both"
    /\ LowerScreenMagnified /\ last.cursor.scale = 1

\* C4: in every frame, through either Render overload, the output buffer and,
\* for hybrid and large-screen layouts, the magnified intermediate buffer and
\* the scaler's destination size are the layout's required dimensions when
\* CombineScreens runs.
C4_SizedBeforeCombine ==
    last.kind # "none" =>
        /\ last.bufferAtCombine = BufferSize(last.sl)
        /\ (IsHybridLayout(last.sl.layout) \/ IsLargeScreenLayout(last.sl.layout)) =>
              /\ last.hybridAtCombine = Scaled(NDS_SCREEN_SIZE, last.sl.ratio)
              /\ last.scalerOutAtCombine = Scaled(NDS_SCREEN_SIZE, last.sl.ratio)

\* The native-size copies of the last frame, as <<screen, translation, size>>.
SmallCopies ==
    {<<last.copies[i].copy.screen, last.copies[i].copy.at, last.copies[i].copy.size>> :
        i \in {k \in 1..Len(last.copies) : last.copies[k].copy.src = "screen"}}
SmallCopyCount ==
    Cardinality({k \in 1..Len(last.copies) : last.copies[k].copy.src = "screen"})

\* C5: in a hybrid layout, mode Both copies both screens at native size at their
\* small-screen translations; mode FocusedOnly copies exactly one screen at
\* native size, the non-primary one (bottom for HybridTop and FlippedHybridTop,
\* top for HybridBottom and FlippedHybridBottom), never the primary one.  This
\* is said of every call of CombineScreens that returns.
C5_HybridSideScreens ==
    (last.kind \in {"frame", "error"} /\ IsHybridLayout(last.sl.layout)) =>
        LET topCopy == <<0, GetTopScreenTranslation(last.sl), NDS_SCREEN_SIZE>>
            bottomCopy == <<1, GetBottomScreenTranslation(last.sl), NDS_SCREEN_SIZE>>
            topPrimary == last.sl.layout \in {"HybridTop", "FlippedHybridTop"}
        IN IF last.sl.mode = "Both"
           THEN SmallCopies = {topCopy, bottomCopy} /\ SmallCopyCount = 2
           ELSE /\ SmallCopyCount = 1
                /\ SmallCopies = (IF topPrimary THEN {bottomCopy} ELSE {topCopy})
C5_Witness ==
    /\ last.kind = "frame" /\ last.sl.layout = "FlippedHybridBottom"
    /\ last.sl.mode = "FocusedOnly" /\ SmallCopyCount = 1

\* Is pixel p written in the last frame, by the compositor or the cursor?
WrittenThisFrame(p) ==
    \/ \E i \in 1..Len(last.copies) : OpCovers(last.copies[i], buffer.size, p)
    \/ last.cursor.drawn /\ OpCovers(CursorOp(last.cursor), buffer.size, p)
\* The image the last frame was composed from.
LastImage == IF last.kind = "error" THEN 2 ELSE frontBuffer

\* C6: after any sequence of frames, every output pixel the last frame did not
\* write holds the clear value; with TopOnly every pixel holds the upper screen
\* of this frame, so none holds the lower screen or an earlier frame.
C6_UnwrittenIsClear ==
    last.kind # "none" =>
        /\ \A p \in Pixels(buffer.size) :
              ~WrittenThisFrame(p) => \A v \in PixelAt(buffer, p) : v = ClearValue
        /\ last.sl.layout = "TopOnly" =>
              \A p \in Pixels(buffer.size) :
                  \A v \in PixelAt(buffer, p) : v = SrcPixel(0, LastImage, p[1], p[2])

\* C7: floor_div(a, b) * b <= a < (floor_div(a, b) + 1) * b for every a and b > 0.
C7_FloorDivision ==
    fn.op = "floor_div" => (fn.q * fn.b <= fn.a /\ fn.a < (fn.q + 1) * fn.b)
C7_Witness == fn.op = "floor_div" /\ fn.a = -4 /\ fn.b = 3 /\ fn.q = -2

\* C8: with the cursor visible and the fragment in the lower half, the cursor
\* branch runs only for left <= x < right and top <= y < bottom; a fragment on
\* the right or bottom edge keeps its sampled colour, and a fragment on the left
\* or top edge of a non-empty rectangle falls into the first bucket of the grid.
C8_HalfOpenContainment ==
    (fn.op = "frag" /\ fn.cursorVisible /\ fn.y >= FragHalf /\ fn.y <= FragOne) =>
        LET left == fn.cursorPos[1]
            top == fn.cursorPos[2]
            right == fn.cursorPos[3]
            bottom == fn.cursorPos[4]
        IN /\ fn.res.inside <=>
                 (left <= fn.x /\ fn.x < right /\ top <= fn.y /\ fn.y < bottom)
           /\ (fn.x = right \/ fn.y = bottom) =>
                 (~fn.res.inside /\ fn.res.oColor = FragOutput(fn.sample))
           /\ (fn.x = left /\ fn.x < right /\ top <= fn.y /\ fn.y < bottom) =>
                 (fn.res.inside /\ fn.res.bx = 0)
           /\ (fn.y = top /\ fn.y < bottom /\ left <= fn.x /\ fn.x < right) =>
                 (fn.res.inside /\ fn.res.by = 0)
           /\ ~fn.res.inside => fn.res.oColor = FragOutput(fn.sample)
C8_Witness ==
    /\ fn.op = "frag" /\ fn.cursorVisible /\ fn.y >= FragHalf
    /\ fn.x = fn.cursorPos[3] /\ fn.cursorPos[1] < fn.x
    /\ fn.cursorPos[2] <= fn.y /\ fn.y < fn.cursorPos[4]
    /\ fn.res.oColor = FragOutput(fn.sample)

\* C9: every pixel DrawCursor writes lies inside the output buffer, and every
\* value written is opaque white or opaque black.
C9_WritesInBounds ==
    \A w \in CursorWrites(last.cursor) :
        /\ 0 <= w[1] /\ w[1] < buffer.size[1]
        /\ 0 <= w[2] /\ w[2] < buffer.size[2]
        /\ w[3] \in {CursorWhite, CursorBlack}
C9_Witness ==
    /\ last.cursor.drawn
    /\ last.cursor.cx + 3 * last.cursor.scale - 1 >= buffer.size[1]
    /\ last.cursor.ex = buffer.size[1] - 1
    /\ CursorWrites(last.cursor) # {}

\* C10: the centre DrawCursor maps pixels around is the target point, the
\* clamped touch position transformed into output-buffer space.
C10_CentreIsTarget ==
    last.cursor.drawn =>
        (last.cursor.cx = last.cursor.target[1] /\ last.cursor.cy = last.cursor.target[2])

====
